---- MODULE Spec2Model ----
(***************************************************************************)
(* QA-Evaluation-System-Backend: the stage catalog, the unlock evaluator   *)
(* (routes/stages.ts) and the evaluation-submission handler                *)
(* POST /feedback/attempts (routes/feedback.ts, src/unnamed/part_010),     *)
(* over a PostgreSQL store reached through TypeORM query runners.          *)
(*                                                                         *)
(* The store is modelled at READ COMMITTED: a transaction reads the        *)
(* committed rows overlaid with its own pending writes, its writes are     *)
(* pending until commit, an UPDATE of a row another transaction has        *)
(* written waits for that transaction to end, and an INSERT that collides  *)
(* with a committed unique key raises.                                     *)
(***************************************************************************)
EXTENDS Integers, Sequences, FiniteSets, TLC

VARIABLES
    stages,      \* table stages: sequence of rows, a stage's id is its index
    questions,   \* table questions: sequence of rows, a question's id is its index
    users,       \* table users: id -> [globalScore, currentStageId]
    userStages,  \* table user_stages (UserProgress): set of rows
    attempts,    \* table evaluation_attempts: set of rows
    responses,   \* table user_responses: set of rows
    feedbacks,   \* table feedback: set of rows
    tx,          \* per request worker: the handler's position, locals and pending writes
    clock,       \* number of submissions received so far; also the wall clock
    listing      \* the body of the latest GET /stages response

vars == <<stages, questions, users, userStages, attempts, responses, feedbacks,
          tx, clock, listing>>

db == <<stages, questions, users, userStages, attempts, responses, feedbacks>>

----------------------------------------------------------------------------
(* Bounds of the model *)

\* submissions received in one behaviour
MaxRequests == 3
\* stages an administrator creates in one behaviour of SpecStages
MaxStages == 2
\* largest displayOrder an administrator types in SpecStages
MaxOrder == 2
\* answers in one submission of SpecScore
MaxAnswers == 40
\* submissions received in one behaviour of SpecScore
MaxLongRequests == 1

(* Program constants *)

\* completion threshold: finalScore >= 60
PassScore == 60
\* users.global_score default
DefaultGlobalScore == 0
\* users.current_stage_id default
DefaultStageId == 1

\* null in a string column, and the absence of a value in a string local
NULL == "null"
\* the value of options?.[i] for an index outside the option list
UNDEFINED == "undefined"
\* an optional row or entity is the empty set or a singleton
None == {}
Some(x) == {x}
The(opt) == CHOOSE x \in opt : TRUE
\* the request of a worker that has none
NoRequest == [authUser |-> 0, userId |-> 0, stageId |-> 0, responses |-> <<>>, attemptId |-> 0]

\* registered accounts (registration itself is outside the model)
Users == {1, 2}
\* request workers
Procs == {1, 2}

----------------------------------------------------------------------------
(* Entities *)

\* entities/Stage.ts: the columns the flow reads
StageRow(order, active) == [displayOrder |-> order, isActive |-> active]

\* entities/Question.ts
McqQuestion(s) ==
    [stageId |-> s, type |-> "multiple-choice", options |-> <<"A", "B">>,
     correctAnswer |-> "A", points |-> 10]

OpenQuestion(s) ==
    [stageId |-> s, type |-> "open", options |-> <<>>,
     correctAnswer |-> NULL, points |-> 20]

\* what generateQuestionsInBackground saves for a stage: one closed, one open question
GeneratedQuestions(s) == <<McqQuestion(s), OpenQuestion(s)>>

\* entities/User.ts column defaults
NewUser == [globalScore |-> DefaultGlobalScore, currentStageId |-> DefaultStageId]

StageIds == 1..Len(stages)
QuestionIds == 1..Len(questions)

RECURSIVE SumScores(_)
SumScores(rows) ==
    IF rows = {} THEN 0
    ELSE LET r == CHOOSE x \in rows : TRUE
         IN  r.score + SumScores(rows \ {r})

\* Math.round for a non-negative quotient num/den: round half up
RoundDiv(num, den) == (2 * num + den) \div (2 * den)

----------------------------------------------------------------------------
(* The store as one transaction sees it *)

\* the position, locals and pending writes of a worker with no request
IdleTx ==
    [pc |-> "idle", req |-> NoRequest, n |-> 0, status |-> 0, failedAt |-> NULL,
     stageOrder |-> 0, questionMap |-> {}, correctCount |-> 0, finalScore |-> 0,
     fbOutcome |-> NULL, prior |-> None, userStage |-> None, usDiff |-> {},
     currentUser |-> None, userDiff |-> {},
     wAttempts |-> {}, wResponses |-> {}, wFeedbacks |-> {},
     wUserStage |-> None, wUser |-> None, gone |-> FALSE]

InFlight(p) == tx[p].pc \notin {"idle", "done"}

\* the rows of a user_stages table for (u, s): none or, by the unique key, one
RowsOf(table, u, s) == {r \in table : r.userId = u /\ r.stageId = s}

\* user_stages as transaction p reads it: committed rows overlaid with its own write
VisibleUserStages(p) ==
    {r \in userStages : \A w \in tx[p].wUserStage :
                            ~(r.userId = w.userId /\ r.stageId = w.stageId)}
    \cup tx[p].wUserStage

\* another transaction holds the row lock of user_stages (u, s)
UserStageLocked(p, u, s) ==
    \E q \in Procs \ {p} : RowsOf(tx[q].wUserStage, u, s) # {}

\* another transaction holds the row lock of users u
UserLocked(p, u) ==
    \E q \in Procs \ {p} : tx[q].wUser # None /\ tx[q].req.userId = u

\* another transaction has inserted, and not yet committed, this attempt_id
AttemptIdLocked(p, aid) ==
    \E q \in Procs \ {p} : \E a \in tx[q].wAttempts : a.attemptId = aid

\* the columns in which an entity differs from the stored row (what save() updates)
ChangedColumns(entity, row) == {c \in DOMAIN entity : entity[c] # row[c]}

\* the stored row after UPDATE ... SET <cols> = <entity's values>
ApplyColumns(row, entity, cols) ==
    [c \in DOMAIN row |-> IF c \in cols THEN entity[c] ELSE row[c]]

----------------------------------------------------------------------------
(* POST /attempts, src/unnamed/part_010 lines 539-917 *)

\* the handler ends: the response is sent, the transaction (if any) is rolled back
\* and the query runner released; a finished worker keeps the request and its outcome
Finished(t, code, where) ==
    [IdleTx EXCEPT !.pc = "done", !.req = t.req, !.n = t.n, !.status = code,
                   !.failedAt = where, !.finalScore = t.finalScore,
                   !.fbOutcome = t.fbOutcome, !.prior = t.prior,
                   !.userStage = t.userStage, !.gone = t.gone]

\* Begin without the comparison of the payload's userId with the authenticated user
BeginWithoutUserCheck(p, r) ==
    /\ ~InFlight(p)
    /\ clock < MaxRequests
    /\ clock' = clock + 1
    /\ LET t == [IdleTx EXCEPT !.req = r, !.n = clock + 1]
       IN  tx' = [tx EXCEPT ![p] =
                IF r.userId <= 0 THEN Finished(t, 400, NULL)
                ELSE IF r.stageId <= 0 THEN Finished(t, 400, NULL)
                ELSE [t EXCEPT !.pc = "load"]]
    /\ listing' = None
    /\ UNCHANGED db

\* lines 543-573: field validation, then connect() and startTransaction()
Begin(p, r) ==
    /\ ~InFlight(p)
    /\ clock < MaxRequests
    /\ clock' = clock + 1
    /\ LET t == [IdleTx EXCEPT !.req = r, !.n = clock + 1]
       IN  tx' = [tx EXCEPT ![p] =
                IF r.userId # r.authUser THEN Finished(t, 403, NULL)
                ELSE IF r.userId <= 0 THEN Finished(t, 400, NULL)
                ELSE IF r.stageId <= 0 THEN Finished(t, 400, NULL)
                ELSE [t EXCEPT !.pc = "load"]]
    /\ listing' = None
    /\ UNCHANGED db

\* the client closes the connection while its request is being served. The handler
\* registers no listener on the request or the response (lines 539-541) and passes no
\* signal to the store or the delegate: it runs on, and gone records the fact
Disconnect(p) ==
    /\ InFlight(p)
    /\ ~tx[p].gone
    /\ tx' = [tx EXCEPT ![p].gone = TRUE]
    /\ UNCHANGED <<db, clock, listing>>

\* questionIds.every(id => !id || isNaN(id)), line 621; a questionId that Number()
\* turns into 0 or NaN is written 0
NoValidQuestionId(rs) ==
    Len(rs) = 0 \/ \A i \in 1..Len(rs) : rs[i].questionId = 0

\* lines 583-649: user, stage and question lookups; each failure rolls back and returns
Load(p) ==
    /\ tx[p].pc = "load"
    /\ LET t == tx[p]
           r == t.req
           stageQuestions ==
               {q \in QuestionIds : questions[q].stageId = r.stageId}
           found ==
               {q \in QuestionIds : \E i \in 1..Len(r.responses) :
                                        r.responses[i].questionId = q}
       IN  tx' = [tx EXCEPT ![p] =
                IF r.userId \notin DOMAIN users THEN Finished(t, 404, NULL)
                ELSE IF r.stageId \notin StageIds THEN Finished(t, 404, NULL)
                ELSE IF stageQuestions = {} THEN Finished(t, 400, NULL)
                ELSE IF NoValidQuestionId(r.responses) THEN Finished(t, 400, NULL)
                ELSE IF found = {} THEN Finished(t, 400, NULL)
                ELSE IF \E i \in 1..Len(r.responses) :
                            r.responses[i].questionId \notin found
                     THEN Finished(t, 400, NULL)
                ELSE [t EXCEPT !.pc = "saveAttempt",
                               !.stageOrder = stages[r.stageId].displayOrder,
                               !.questionMap = found]]
    /\ UNCHANGED <<db, clock, listing>>

\* SaveAttempt with the repository taken from AppDataSource instead of
\* queryRunner.manager: the insert is committed on its own
SaveAttemptOutsideTransaction(p, fail) ==
    /\ tx[p].pc = "saveAttempt"
    /\ LET t == tx[p]
           r == t.req
           row == [id |-> t.n, attemptId |-> r.attemptId, userId |-> r.userId,
                   stageId |-> r.stageId, score |-> 0, isCompleted |-> TRUE]
           bad == fail \/ \E a \in attempts : a.attemptId = r.attemptId
       IN  /\ tx' = [tx EXCEPT ![p] =
                  IF bad THEN Finished(t, 500, "saveAttempt")
                  ELSE [t EXCEPT !.pc = "grade"]]
           /\ attempts' = IF bad THEN attempts ELSE attempts \cup {row}
    /\ UNCHANGED <<stages, questions, users, userStages, responses, feedbacks,
                   clock, listing>>

\* SaveAttempt on a table whose attempt_id column has no unique key
SaveAttemptNoUniqueKey(p, fail) ==
    /\ tx[p].pc = "saveAttempt"
    /\ LET t == tx[p]
           r == t.req
           row == [id |-> t.n, attemptId |-> r.attemptId, userId |-> r.userId,
                   stageId |-> r.stageId, score |-> 0, isCompleted |-> TRUE]
       IN  tx' = [tx EXCEPT ![p] =
                IF fail THEN Finished(t, 500, "saveAttempt")
                ELSE [t EXCEPT !.pc = "grade", !.wAttempts = {row}]]
    /\ UNCHANGED <<db, clock, listing>>

\* lines 663-686: the attempt row is inserted with the placeholder score 0
SaveAttempt(p, fail) ==
    /\ tx[p].pc = "saveAttempt"
    /\ ~AttemptIdLocked(p, tx[p].req.attemptId)
    /\ LET t == tx[p]
           r == t.req
           row == [id |-> t.n, attemptId |-> r.attemptId, userId |-> r.userId,
                   stageId |-> r.stageId, score |-> 0, isCompleted |-> TRUE]
       IN  tx' = [tx EXCEPT ![p] =
                IF fail \/ \E a \in attempts : a.attemptId = r.attemptId
                THEN Finished(t, 500, "saveAttempt")
                ELSE [t EXCEPT !.pc = "grade", !.wAttempts = {row}]]
    /\ UNCHANGED <<db, clock, listing>>

\* parseInt(response.answer): the integer the text starts with, or nothing for NaN
ParseInt(a) ==
    CASE a = "0" -> <<0>>
      [] a = "1" -> <<1>>
      [] a = "2" -> <<2>>
      [] a = "-1" -> <<-1>>
      [] a = "1abc" -> <<1>>
      [] a = " 0" -> <<0>>
      [] OTHER -> <<>>

\* OptionAt counting the options from 1
OptionAtOneBased(options, idx) ==
    IF idx # <<>> /\ idx[1] >= 1 /\ idx[1] <= Len(options)
    THEN options[idx[1]]
    ELSE UNDEFINED

\* question.options?.[userAnswerIndex], zero-based
OptionAt(options, idx) ==
    IF idx # <<>> /\ idx[1] >= 0 /\ idx[1] < Len(options)
    THEN options[idx[1] + 1]
    ELSE UNDEFINED

\* Hangs without the timeout option: a call the delegate never answers stays pending
HangsWithoutTimeout(outcome) == outcome = "silent"

\* services/openRouterService.ts lines 50-65, timeout: 90000: axios ends a call the
\* delegate has not answered ("silent") after 90 s and rejects, so no call to
\* generateCompletion is awaited for ever
Hangs(outcome) == FALSE

\* services/openRouterService.ts line 195: generateCompletion is awaited outside the
\* try block, so a call that fails ("fail") or times out ("silent") makes
\* evaluateOpenQuestion throw
EvaluateOpenQuestionThrows(ai) == ai \in {"fail", "silent"}

\* services/openRouterService.ts lines 197-203: the isCorrect of the parsed verdict
\* ("correct", "incorrect"); text that JSON.parse rejects ("garbage", or a verdict
\* inside a code fence, "fenced") gives isCorrect false
EvaluateOpenQuestion(ai) == ai = "correct"

\* IsCorrect with a catch block that accepts the answer when the evaluation throws
IsCorrectFailOpen(q, resp) ==
    IF q.type = "multiple-choice"
    THEN q.correctAnswer = OptionAt(q.options, ParseInt(resp.answer))
    ELSE IF EvaluateOpenQuestionThrows(resp.ai) THEN TRUE
    ELSE EvaluateOpenQuestion(resp.ai)

\* lines 698-729: isCorrect for one answer; for an open question ai is what the
\* grading delegate does, and the catch block of lines 724-728 turns a throw into false
IsCorrect(q, resp) ==
    IF q.type = "multiple-choice"
    THEN q.correctAnswer = OptionAt(q.options, ParseInt(resp.answer))
    ELSE IF EvaluateOpenQuestionThrows(resp.ai) THEN FALSE
    ELSE EvaluateOpenQuestion(resp.ai)

\* lines 731-742: the user_responses row of the i-th answer
ResponseRow(n, i, resp) ==
    LET q == questions[resp.questionId]
        ok == IsCorrect(q, resp)
    IN  [attempt |-> n, idx |-> i, questionId |-> resp.questionId,
         response |-> resp.answer, isCorrect |-> ok,
         pointsEarned |-> IF ok THEN q.points ELSE 0]

\* lines 688-759: grade every answer and insert its row
Grade(p, fail) ==
    /\ tx[p].pc = "grade"
    /\ \A i \in 1..Len(tx[p].req.responses) : ~Hangs(tx[p].req.responses[i].ai)
    /\ LET t == tx[p]
           rs == t.req.responses
           rows == {ResponseRow(t.n, i, rs[i]) : i \in 1..Len(rs)}
       IN  tx' = [tx EXCEPT ![p] =
                IF fail THEN Finished(t, 500, "saveResponse")
                ELSE [t EXCEPT !.pc = "feedback", !.wResponses = rows,
                               !.correctCount =
                                   Cardinality({r \in rows : r.isCorrect})]]
    /\ UNCHANGED <<db, clock, listing>>

\* A positive IEEE 754 double is [mant, exp]: mant the 53 bits of the significand,
\* most significant first, mant[1] = 1; its value is mant * 2^(exp - 52), so exp is
\* the weight of the leading bit. Zero has mant <<>>.
MantBits == 53

Zeros(n) == [i \in 1..n |-> 0]

\* add one to a binary number (most significant bit first)
Inc(bits) ==
    LET zeros == {i \in 1..Len(bits) : bits[i] = 0}
    IN  IF zeros = {} THEN <<1>> \o Zeros(Len(bits))
        ELSE LET j == CHOOSE i \in zeros : \A k \in zeros : k <= i
             IN  [i \in 1..Len(bits) |->
                     IF i < j THEN bits[i] ELSE IF i = j THEN 1 ELSE 0]

\* n written in exactly w binary digits
Padded(n, w) == [i \in 1..w |-> (n \div 2^(w - i)) % 2]

\* the binary digits of a natural number below 2^30, and back
BitsOf(n) ==
    IF n = 0 THEN <<>>
    ELSE Padded(n, CHOOSE w \in 1..30 : 2^(w - 1) <= n /\ n < 2^w)

RECURSIVE IntOf(_)
IntOf(bits) ==
    IF Len(bits) = 0 THEN 0
    ELSE IF Len(bits) = 1 THEN bits[1]
    ELSE LET h == Len(bits) \div 2
         IN  IntOf(SubSeq(bits, 1, h)) * 2^(Len(bits) - h)
                 + IntOf(SubSeq(bits, h + 1, Len(bits)))

\* round-to-nearest-even of the exact binary number bits (leading bit 1, of weight
\* exp) followed by a remainder: half is "the rest is exactly one half of the last
\* kept bit", more is "the rest is more than one half"
RoundToDouble(bits, exp, half, more) ==
    LET kept == SubSeq(bits, 1, MantBits)
        up == more \/ (half /\ kept[MantBits] = 1)
        r == IF up THEN Inc(kept) ELSE kept
    IN  IF Len(r) > MantBits
        THEN [mant |-> SubSeq(r, 1, MantBits), exp |-> exp + 1]
        ELSE [mant |-> r, exp |-> exp]

\* a 53-bit significand is handled in limbs: a leading limb of 14 bits, then three
\* of 13
LimbBits == 13
LimbBase == 8192

\* the number of zero bits after the binary point of r/den before its first one bit
RECURSIVE LeadingZeros(_, _)
LeadingZeros(r, den) == IF 2 * r >= den THEN 0 ELSE 1 + LeadingZeros(2 * r, den)

\* the double num / den for integers 0 <= num <= den, 0 < den < 2^16: long division
\* of the 53 bits that follow the leading zeros, a limb at a time, then rounding
DoubleDiv(num, den) ==
    IF num = 0 THEN [mant |-> <<>>, exp |-> 0]
    ELSE IF num = den THEN [mant |-> <<1>> \o Zeros(MantBits - 1), exp |-> 0]
    ELSE LET z == LeadingZeros(num, den)
             a1 == num * 2^z * 2 * LimbBase
             a2 == (a1 % den) * LimbBase
             a3 == (a2 % den) * LimbBase
             a4 == (a3 % den) * LimbBase
             rem == a4 % den
         IN  RoundToDouble(Padded(a1 \div den, LimbBits + 1)
                               \o Padded(a2 \div den, LimbBits)
                               \o Padded(a3 \div den, LimbBits)
                               \o Padded(a4 \div den, LimbBits),
                           0 - (z + 1), 2 * rem = den, 2 * rem > den)

\* the binary digits of mant * k for a 53-bit mant and a natural k < 2^10
MulSmall(mant, k) ==
    LET l1 == IntOf(SubSeq(mant, 1, 14))
        l2 == IntOf(SubSeq(mant, 15, 27))
        l3 == IntOf(SubSeq(mant, 28, 40))
        l4 == IntOf(SubSeq(mant, 41, 53))
        v4 == l4 * k
        v3 == l3 * k + v4 \div LimbBase
        v2 == l2 * k + v3 \div LimbBase
        v1 == l1 * k + v2 \div LimbBase
    IN  BitsOf(v1) \o Padded(v2 % LimbBase, LimbBits)
            \o Padded(v3 % LimbBase, LimbBits) \o Padded(v4 % LimbBase, LimbBits)

\* the double x * k for a small natural k >= 1
DoubleTimes(x, k) ==
    IF x.mant = <<>> THEN x
    ELSE LET prod == MulSmall(x.mant, k)
             extra == Len(prod) - MantBits
             rest == SubSeq(prod, MantBits + 1, Len(prod))
         IN  IF extra = 0 THEN [mant |-> prod, exp |-> x.exp]
             ELSE RoundToDouble(prod, x.exp + extra,
                                rest = <<1>> \o Zeros(extra - 1),
                                rest[1] = 1 /\ rest # <<1>> \o Zeros(extra - 1))

\* Math.round of a double 0 <= x < 2^52: the nearest integer, ties upwards
MathRound(x) ==
    IF x.mant = <<>> \/ x.exp < 0 - 1 THEN 0
    ELSE IF x.exp = 0 - 1 THEN 1
    ELSE IntOf(SubSeq(x.mant, 1, x.exp + 1)) + x.mant[x.exp + 2]

\* line 762: Math.round((correctCount / responses.length) * 100)
FinalScore(correctCount, total) ==
    MathRound(DoubleTimes(DoubleDiv(correctCount, total), 100))

\* services/openRouterService.ts lines 232-237: the ladder the prompt gives the model
Badge(score) ==
    IF score <= 40 THEN "QA Novice"
    ELSE IF score <= 60 THEN "QA Apprentice"
    ELSE IF score <= 80 THEN "QA Practitioner"
    ELSE IF score <= 95 THEN "QA Expert"
    ELSE "QA Master"

\* the fields generateFeedback requires of the delegate's answer (lines 309-311)
FeedbackFields == {"strengths", "improvements", "nextSteps", "detailedFeedback", "badge"}

\* the text generateCompletion returns: fence is what it starts with ("", "json fence" for
\* three backticks and json, "fence" for three backticks), body what follows ("json": a JSON object, "rawNewline": a JSON object
\* with line breaks inside its strings, "truncated": JSON cut short, "prose": no JSON
\* at all), fields the keys of the object that hold a truthy value, badge its badge
Reply(fence, body, fields, badge) ==
    [fence |-> fence, body |-> body, fields |-> fields, badge |-> badge]

\* services/openRouterService.ts lines 48-88: what the delegate answers to the
\* feedback prompt, which carries the score. "ok" obeys the prompt; the other
\* outcomes are the ways a language model departs from it
Completion(outcome, score) ==
    CASE outcome = "ok" -> Reply("", "json", FeedbackFields, Badge(score))
      [] outcome = "fenced" -> Reply("json fence", "json", FeedbackFields, Badge(score))
      [] outcome = "fencedPlain" -> Reply("fence", "json", FeedbackFields, Badge(score))
      [] outcome = "rawNewline" -> Reply("", "rawNewline", FeedbackFields, Badge(score))
      [] outcome = "garbage" -> Reply("", "prose", {}, NULL)
      [] outcome = "truncated" -> Reply("", "truncated", FeedbackFields, Badge(score))
      [] outcome = "preamble" -> Reply("Here is", "json", FeedbackFields, Badge(score))
      [] outcome = "noStrengths" ->
             Reply("", "json", FeedbackFields \ {"strengths"}, Badge(score))
      [] outcome = "noImprovements" ->
             Reply("", "json", FeedbackFields \ {"improvements"}, Badge(score))
      [] outcome = "noNextSteps" ->
             Reply("", "json", FeedbackFields \ {"nextSteps"}, Badge(score))
      [] outcome = "noDetailedFeedback" ->
             Reply("", "json", FeedbackFields \ {"detailedFeedback"}, Badge(score))
      [] outcome = "noBadge" -> Reply("", "json", FeedbackFields \ {"badge"}, NULL)
      [] OTHER -> Reply("", "prose", {}, NULL)

\* services/openRouterService.ts lines 319-327: the fixed fallback payload
FallbackFeedback ==
    [fields |-> FeedbackFields, strengths |-> "fallback", improvements |-> "fallback",
     badge |-> "QA Novice"]

\* lines 276-283: the surrounding code fence is removed, anything else is kept
CleanedResponse(reply) ==
    IF reply.fence \in {"json fence", "fence"} THEN [reply EXCEPT !.fence = ""] ELSE reply

\* lines 287-306: JSON.parse, and after a failure once more with the line breaks
\* inside strings replaced by spaces; FALSE when both throw
Parses(cleaned) ==
    /\ cleaned.fence = ""
    /\ cleaned.body \in {"json", "rawNewline"}

\* ParseFeedback without the check of the improvements field
RequiredFieldsLax == FeedbackFields \ {"improvements"}

\* lines 308-313: the fields whose absence throws
RequiredFields == FeedbackFields

\* lines 274-328: the parsed answer when it parses and has every required field,
\* the fallback payload otherwise
ParseFeedback(reply) ==
    LET cleaned == CleanedResponse(reply)
    IN  IF Parses(cleaned) /\ RequiredFields \subseteq cleaned.fields
        THEN [fields |-> cleaned.fields, strengths |-> "ai", improvements |-> "ai",
              badge |-> cleaned.badge]
        ELSE FallbackFeedback

\* services/openRouterService.ts lines 206-329: what generateFeedback returns when
\* generateCompletion answers; when generateCompletion throws ("throws") or times out
\* ("silent"), the call at line 272 is outside the try block and generateFeedback
\* throws as well
GenerateFeedback(outcome, score) == ParseFeedback(Completion(outcome, score))

GenerateFeedbackThrows(outcome) == outcome \in {"throws", "silent"}

\* lines 775-787: the feedback entity; a field the payload lacks takes its default
FeedbackRow(n, score, total, correctCount, ai) ==
    [attempt |-> n, score |-> score, totalQuestions |-> total,
     correctAnswers |-> correctCount,
     strengths |-> IF "strengths" \in ai.fields THEN ai.strengths ELSE "[]",
     improvements |-> IF "improvements" \in ai.fields THEN ai.improvements ELSE "[]",
     badge |-> IF "badge" \in ai.fields THEN ai.badge ELSE "QA Novice"]

\* Feedback with the feedback repository taken from AppDataSource instead of
\* queryRunner.manager: the feedback row is committed on its own
FeedbackOutsideTransaction(p, outcome, failFeedback, failScore) ==
    /\ tx[p].pc = "feedback"
    /\ ~Hangs(outcome)
    /\ LET t == tx[p]
           total == Len(t.req.responses)
           score == FinalScore(t.correctCount, total)
           row == FeedbackRow(t.n, score, total, t.correctCount,
                              GenerateFeedback(outcome, score))
           t1 == [t EXCEPT !.finalScore = score, !.fbOutcome = outcome]
           saved == ~GenerateFeedbackThrows(outcome) /\ ~failFeedback
       IN  /\ tx' = [tx EXCEPT ![p] =
                  IF GenerateFeedbackThrows(outcome)
                  THEN Finished(t1, 500, "generateFeedback")
                  ELSE IF failFeedback THEN Finished(t1, 500, "saveFeedback")
                  ELSE IF failScore THEN Finished(t1, 500, "updateScore")
                  ELSE [t1 EXCEPT !.pc = "findUserStage",
                                  !.wAttempts = {[a EXCEPT !.score = score] :
                                                     a \in t.wAttempts}]]
           /\ feedbacks' = IF saved THEN feedbacks \cup {row} ELSE feedbacks
    /\ UNCHANGED <<stages, questions, users, userStages, attempts, responses,
                   clock, listing>>

\* lines 761-800: final score, feedback row, score written to the attempt
Feedback(p, outcome, failFeedback, failScore) ==
    /\ tx[p].pc = "feedback"
    /\ ~Hangs(outcome)
    /\ LET t == tx[p]
           total == Len(t.req.responses)
           score == FinalScore(t.correctCount, total)
           row == FeedbackRow(t.n, score, total, t.correctCount,
                              GenerateFeedback(outcome, score))
           t1 == [t EXCEPT !.finalScore = score, !.fbOutcome = outcome]
       IN  tx' = [tx EXCEPT ![p] =
                IF GenerateFeedbackThrows(outcome)
                THEN Finished(t1, 500, "generateFeedback")
                ELSE IF failFeedback THEN Finished(t1, 500, "saveFeedback")
                ELSE IF failScore THEN Finished(t1, 500, "updateScore")
                ELSE [t1 EXCEPT !.pc = "findUserStage",
                                !.wFeedbacks = {row},
                                !.wAttempts = {[a EXCEPT !.score = score] :
                                                   a \in t.wAttempts}]]
    /\ UNCHANGED <<db, clock, listing>>

\* lines 813-815: userStageRepository.findOne, no lock taken
FindUserStage(p) ==
    /\ tx[p].pc = "findUserStage"
    /\ LET t == tx[p]
           found == RowsOf(VisibleUserStages(p), t.req.userId, t.req.stageId)
       IN  tx' = [tx EXCEPT ![p] =
                [t EXCEPT !.pc = "saveUserStage", !.userStage = found,
                          !.prior = found]]
    /\ UNCHANGED <<db, clock, listing>>

\* NewUserStage marking every first submission completed
NewUserStageAlwaysCompleted(u, s, finalScore, now) ==
    [userId |-> u, stageId |-> s, isCompleted |-> TRUE, score |-> finalScore,
     completedAt |-> now]

\* lines 830-836: the row of a first submission
NewUserStage(u, s, finalScore, now) ==
    [userId |-> u, stageId |-> s, isCompleted |-> finalScore >= PassScore,
     score |-> finalScore,
     completedAt |-> IF finalScore >= PassScore THEN now ELSE 0]

\* UpdatedUserStage storing the latest score instead of the best one
UpdatedUserStageLatest(e, finalScore, now) ==
    [e EXCEPT !.isCompleted = e.isCompleted \/ finalScore >= PassScore,
              !.completedAt = IF finalScore >= PassScore /\ ~e.isCompleted
                              THEN now ELSE e.completedAt,
              !.score = finalScore]

\* lines 839-845: the entity of a later submission; completedAt 0 is null
UpdatedUserStage(e, finalScore, now) ==
    LET e1 == IF finalScore >= PassScore /\ ~e.isCompleted
              THEN [e EXCEPT !.isCompleted = TRUE, !.completedAt = now]
              ELSE e
    IN  IF finalScore > e1.score THEN [e1 EXCEPT !.score = finalScore] ELSE e1

\* lines 817-851: create or update the entity, then userStageRepository.save.
\* save() of a new entity is an INSERT: it waits while another transaction's insert
\* of the same key is pending and raises on a committed one. save() of a loaded
\* entity reads the stored row, and updates the columns that differ; the UPDATE
\* waits while another transaction holds the row.
SaveUserStage(p, fail) ==
    /\ tx[p].pc = "saveUserStage"
    /\ LET t == tx[p]
           u == t.req.userId
           s == t.req.stageId
           stored == RowsOf(userStages, u, s)
       IN  IF t.userStage = None
           THEN /\ ~UserStageLocked(p, u, s)
                /\ LET e == NewUserStage(u, s, t.finalScore, clock)
                   IN  tx' = [tx EXCEPT ![p] =
                            IF fail \/ stored # {}
                            THEN Finished(t, 500, "saveUserStage")
                            ELSE [t EXCEPT !.pc = "aggregate", !.userStage = {e},
                                           !.wUserStage = {e}]]
           ELSE LET e == UpdatedUserStage(The(t.userStage), t.finalScore, clock)
                    diff == ChangedColumns(e, The(stored))
                    t1 == [t EXCEPT !.userStage = {e}]
                IN  tx' = [tx EXCEPT ![p] =
                         IF fail THEN Finished(t, 500, "saveUserStage")
                         ELSE IF diff = {} THEN [t1 EXCEPT !.pc = "aggregate"]
                         ELSE IF UserStageLocked(p, u, s)
                         THEN [t1 EXCEPT !.pc = "waitUserStage", !.usDiff = diff]
                         ELSE [t1 EXCEPT !.pc = "aggregate", !.wUserStage = {e}]]
    /\ UNCHANGED <<db, clock, listing>>

\* the UPDATE of SaveUserStage, once the other transaction has ended: at READ
\* COMMITTED it is applied to the row as that transaction left it
WaitUserStage(p) ==
    /\ tx[p].pc = "waitUserStage"
    /\ LET t == tx[p]
           u == t.req.userId
           s == t.req.stageId
       IN  /\ ~UserStageLocked(p, u, s)
           /\ tx' = [tx EXCEPT ![p] =
                  [t EXCEPT !.pc = "aggregate", !.usDiff = {},
                            !.wUserStage =
                                {ApplyColumns(The(RowsOf(userStages, u, s)),
                                              The(t.userStage), t.usDiff)}]]
    /\ UNCHANGED <<db, clock, listing>>

\* CompletedScoreSum without the isCompleted condition
AllScoreSum(table, u) == SumScores({r \in table : r.userId = u})

\* lines 867-872: SUM(score) over the user's completed rows, as the transaction sees them
CompletedScoreSum(table, u) ==
    SumScores({r \in table : r.userId = u /\ r.isCompleted})

\* lines 878-883: the active stages with displayOrder = stage.displayOrder + 1
NextStages(order) ==
    {s \in StageIds : stages[s].displayOrder = order + 1 /\ stages[s].isActive}

\* lines 874-888: the currentUser entity after the handler's assignments; next is the
\* stage findOne returned, if any
UpdatedUser(cu, total, completed, next) ==
    [globalScore |-> total,
     currentStageId |-> IF completed /\ next # None THEN The(next)
                        ELSE cu.currentStageId]

\* lines 862-888: read the user, the sum and the next stage; set the entity
Aggregate(p) ==
    /\ tx[p].pc = "aggregate"
    /\ LET t == tx[p]
           u == t.req.userId
           total == CompletedScoreSum(VisibleUserStages(p), u)
           cands == NextStages(t.stageOrder)
       IN  \E next \in (IF cands = {} THEN {None} ELSE {Some(s) : s \in cands}) :
               tx' = [tx EXCEPT ![p] =
                   [t EXCEPT !.pc = "saveUser",
                             !.currentUser =
                                 {UpdatedUser(users[u], total,
                                              The(t.userStage).isCompleted, next)}]]
    /\ UNCHANGED <<db, clock, listing>>

\* line 890: userRepo.save(currentUser), an UPDATE of the columns that differ
SaveUser(p, fail) ==
    /\ tx[p].pc = "saveUser"
    /\ LET t == tx[p]
           u == t.req.userId
           diff == ChangedColumns(The(t.currentUser), users[u])
       IN  tx' = [tx EXCEPT ![p] =
                IF fail THEN Finished(t, 500, "saveUser")
                ELSE IF diff = {} THEN [t EXCEPT !.pc = "commit"]
                ELSE IF UserLocked(p, u)
                THEN [t EXCEPT !.pc = "waitUser", !.userDiff = diff]
                ELSE [t EXCEPT !.pc = "commit", !.wUser = t.currentUser]]
    /\ UNCHANGED <<db, clock, listing>>

\* the UPDATE of SaveUser, once the other transaction has ended
WaitUser(p) ==
    /\ tx[p].pc = "waitUser"
    /\ LET t == tx[p]
           u == t.req.userId
       IN  /\ ~UserLocked(p, u)
           /\ tx' = [tx EXCEPT ![p] =
                  [t EXCEPT !.pc = "commit", !.userDiff = {},
                            !.wUser = {ApplyColumns(users[u], The(t.currentUser),
                                                    t.userDiff)}]]
    /\ UNCHANGED <<db, clock, listing>>

\* lines 894-902: commitTransaction, then the 201 response
Commit(p) ==
    /\ tx[p].pc = "commit"
    /\ LET t == tx[p]
       IN  /\ attempts' = attempts \cup t.wAttempts
           /\ responses' = responses \cup t.wResponses
           /\ feedbacks' = feedbacks \cup t.wFeedbacks
           /\ userStages' = VisibleUserStages(p)
           /\ users' = IF t.wUser = None THEN users
                       ELSE [users EXCEPT ![t.req.userId] = The(t.wUser)]
           /\ tx' = [tx EXCEPT ![p] = Finished(t, 201, NULL)]
    /\ UNCHANGED <<stages, questions, clock, listing>>

----------------------------------------------------------------------------
(* Stage catalog, src/src/routes/stages.ts *)

\* entities/Stage.ts createStage and routes/stages.ts POST /: the row is saved with
\* the displayOrder and isActive of the body; generateQuestionsInBackground then
\* saves the stage's questions, or fails and leaves the stage without any
CreateStage(order, active, generated) ==
    /\ Len(stages) < MaxStages
    /\ stages' = Append(stages, StageRow(order, active))
    /\ questions' = IF generated
                    THEN questions \o GeneratedQuestions(Len(stages) + 1)
                    ELSE questions
    /\ listing' = None
    /\ UNCHANGED <<users, userStages, attempts, responses, feedbacks, tx, clock>>

\* routes/stages.ts lines 11-34 and 470-489; stageList is the list the caller passes
\* (ids of the active stages in the order the query returned them), userRows the
\* user's user_stages rows
\* PreviousStages taking any stage with a lower displayOrder as the previous one
PreviousStagesAnyLower(stageList, order) ==
    {i \in 1..Len(stageList) : stages[stageList[i]].displayOrder < order}

PreviousStages(stageList, order) ==
    {i \in 1..Len(stageList) : stages[stageList[i]].displayOrder = order - 1}

\* stages.find: the first element of the list that satisfies the predicate
FirstIndex(idxs) == CHOOSE i \in idxs : \A j \in idxs : i <= j

\* isStageUnlocked locking a stage whose previous stage is missing
isStageUnlockedFailClosed(stage, stageList, userRows) ==
    IF stages[stage].displayOrder = 1 THEN TRUE
    ELSE LET prev == PreviousStages(stageList, stages[stage].displayOrder)
         IN  IF prev = {} THEN FALSE
             ELSE LET previousStage == stageList[FirstIndex(prev)]
                  IN  \E us \in userRows :
                          us.stageId = previousStage /\ us.isCompleted

isStageUnlocked(stage, stageList, userRows) ==
    IF stages[stage].displayOrder = 1 THEN TRUE
    ELSE LET prev == PreviousStages(stageList, stages[stage].displayOrder)
         IN  IF prev = {} THEN TRUE
             ELSE LET previousStage == stageList[FirstIndex(prev)]
                  IN  \E us \in userRows :
                          us.stageId = previousStage /\ us.isCompleted

\* the orders in which find({ where: { isActive: true }, order: { displayOrder: 'ASC' } })
\* can return the active stages: ascending, ties in any order
ActiveStageLists ==
    LET active == {s \in StageIds : stages[s].isActive}
        n == Cardinality(active)
    IN  {l \in [1..n -> active] :
            /\ \A i, j \in 1..n : i # j => l[i] # l[j]
            /\ \A i, j \in 1..n :
                   i < j => stages[l[i]].displayOrder <= stages[l[j]].displayOrder}

\* routes/stages.ts lines 497-545: GET /stages for user u
GetStages(u) ==
    /\ \E l \in ActiveStageLists :
           LET userRows == {r \in userStages : r.userId = u}
           IN  listing' =
                   {[userId |-> u, stages |-> l,
                     unlocked |-> {l[i] : i \in {j \in 1..Len(l) :
                                        isStageUnlocked(l[j], l, userRows)}}]}
    /\ UNCHANGED <<db, tx, clock>>

----------------------------------------------------------------------------
(* Requests *)

Resp(q, a, ai) == [questionId |-> q, answer |-> a, ai |-> ai]

Request(auth, u, s, rs, aid) ==
    [authUser |-> auth, userId |-> u, stageId |-> s, responses |-> rs,
     attemptId |-> aid]

HasQuestions(s) == \E q \in QuestionIds : questions[q].stageId = s

McqOf(s) == CHOOSE q \in QuestionIds :
                questions[q].stageId = s /\ questions[q].type = "multiple-choice"

OpenOf(s) == CHOOSE q \in QuestionIds :
                questions[q].stageId = s /\ questions[q].type = "open"

\* the right option of the closed question: 1 of 1, score 100
PassList(s) == <<Resp(McqOf(s), "0", NULL)>>
\* a wrong option: 0 of 1, score 0
FailList(s) == <<Resp(McqOf(s), "1", NULL)>>
\* the right option and an open answer whose grading call fails: 1 of 2, score 50
HalfList(s) == <<Resp(McqOf(s), "0", NULL), Resp(OpenOf(s), "text", "fail")>>
\* the closed question of another stage, answered right
ForeignList(s) ==
    LET others == {o \in StageIds : o # s /\ HasQuestions(o)}
    IN  IF others = {} THEN {}
        ELSE {<<Resp(McqOf(CHOOSE o \in others : \A x \in others : o <= x), "0", NULL)>>}

\* a client that makes up a fresh attempt identifier for every submission
FreshAttemptId == clock + 1

\* the answer lists a client sends for stage s
AnswerLists(s) ==
    IF HasQuestions(s)
    THEN {PassList(s), FailList(s), HalfList(s)} \cup ForeignList(s)
    ELSE {<<Resp(1, "0", NULL)>>}

\* the submissions of the sequential specification: user 1 on every stage, then a
\* stage id of 0, a stage id that does not exist, and another user's id in the body
CoreRequests ==
    UNION {{Request(1, 1, s, rs, FreshAttemptId) : rs \in AnswerLists(s)} :
              s \in StageIds}
    \cup {Request(1, 1, s, <<Resp(1, "0", NULL)>>, FreshAttemptId) :
            s \in {0, Len(stages) + 1}}
    \cup {Request(1, 2, 1, <<Resp(1, "0", NULL)>>, FreshAttemptId)}

----------------------------------------------------------------------------
(* Specifications *)

\* a catalog an administrator has built: three active stages in sequence, each with
\* its generated questions, and a fourth, inactive, whose generation failed
SeedStages ==
    <<StageRow(1, TRUE), StageRow(2, TRUE), StageRow(3, TRUE), StageRow(4, FALSE)>>

SeedQuestions ==
    GeneratedQuestions(1) \o GeneratedQuestions(2) \o GeneratedQuestions(3)

InitCommon ==
    /\ users = [u \in Users |-> NewUser]
    /\ userStages = {}
    /\ attempts = {}
    /\ responses = {}
    /\ feedbacks = {}
    /\ tx = [p \in Procs |-> IdleTx]
    /\ clock = 0
    /\ listing = None

Init ==
    /\ stages = SeedStages
    /\ questions = SeedQuestions
    /\ InitCommon

FeedbackOutcomes == {"ok", "garbage", "throws"}

\* submissions arrive one after another at worker 1; any store write can fail
Next ==
    \/ \E r \in CoreRequests : Begin(1, r)
    \/ Load(1)
    \/ \E fail \in BOOLEAN : SaveAttempt(1, fail)
    \/ \E fail \in BOOLEAN : Grade(1, fail)
    \/ \E o \in FeedbackOutcomes, f1, f2 \in BOOLEAN : Feedback(1, o, f1, f2)
    \/ FindUserStage(1)
    \/ \E fail \in BOOLEAN : SaveUserStage(1, fail)
    \/ Aggregate(1)
    \/ \E fail \in BOOLEAN : SaveUser(1, fail)
    \/ Commit(1)

Spec == Init /\ [][Next]_vars

----------------------------------------------------------------------------
(* Properties of the submission handler, submissions one after another (Spec) *)

SameKey(r1, r2) == r1.userId = r2.userId /\ r1.stageId = r2.stageId

\* C1: over committed submissions made one after another, a stored UserProgress
\* row never loses score and isCompleted never goes from true to false.
C1_ProgressMonotone ==
    [][\A r \in userStages : \E r2 \in userStages' :
           /\ SameKey(r, r2)
           /\ r2.score >= r.score
           /\ r.isCompleted => r2.isCompleted]_vars

\* a lower-scoring attempt was committed after a passing one of the same user and
\* stage, and the row still holds the passing score
C1_Witness ==
    \E a, b \in attempts : \E r \in userStages :
        /\ a.userId = b.userId /\ a.stageId = b.stageId /\ a.id < b.id
        /\ a.score >= PassScore /\ b.score < a.score
        /\ r.userId = a.userId /\ r.stageId = a.stageId
        /\ r.score = a.score /\ r.isCompleted

\* the rows a request numbered n has left in the store
RowsIn(att, resp, fb, n) ==
    {a \in att : a.id = n} \cup {r \in resp : r.attempt = n}
    \cup {f \in fb : f.attempt = n}

RowsOfRequest(n) == RowsIn(attempts, responses, feedbacks, n)

\* C2: a submission that throws after its transaction started is rolled back: the
\* step that ends it in an error changes no table, and no attempt, response or
\* feedback row of that submission is in the store afterwards.
C2_FailureRollsBack ==
    [][\A p \in Procs :
           (tx'[p].pc = "done" /\ tx'[p].status = 500)
               => /\ RowsIn(attempts', responses', feedbacks', tx'[p].n) = {}
                  /\ (InFlight(p) => db' = db)]_vars

\* the last write of a submission, the User update, has failed after every other
\* write of the transaction was made, and nothing of the submission is stored
C2_Witness ==
    /\ tx[1].pc = "done" /\ tx[1].status = 500 /\ tx[1].failedAt = "saveUser"
    /\ tx[1].finalScore >= PassScore
    /\ RowsOfRequest(tx[1].n) = {}
    /\ RowsOf(userStages, tx[1].req.userId, tx[1].req.stageId) = {}

\* C6: a submission for stage S with an answer to a question of another stage is
\* rejected: no stored response belongs to a question of a stage other than its
\* attempt's, and such a submission does not end with 201.
C6_ForeignQuestionRejected ==
    /\ \A r \in responses : \A a \in attempts :
           a.id = r.attempt => questions[r.questionId].stageId = a.stageId
    /\ \A p \in Procs :
           (tx[p].pc = "done"
            /\ \E i \in 1..Len(tx[p].req.responses) :
                   LET q == tx[p].req.responses[i].questionId
                   IN  q \in QuestionIds /\ questions[q].stageId # tx[p].req.stageId)
               => tx[p].status # 201

\* C7: right after a committed submission of user U, U.globalScore is the sum of
\* score over U's completed UserProgress rows (0 when there is none).
C7_GlobalScoreIsSum ==
    \A p \in Procs :
        (tx[p].pc = "done" /\ tx[p].status = 201)
            => users[tx[p].req.userId].globalScore
                   = SumScores({r \in userStages :
                                    r.userId = tx[p].req.userId /\ r.isCompleted})

\* a submission was committed while the user holds two completed rows and one row
\* that is not completed and has a score above 0
C7_Witness ==
    /\ tx[1].pc = "done" /\ tx[1].status = 201
    /\ Cardinality({r \in userStages : r.userId = 1 /\ r.isCompleted}) = 2
    /\ \E r \in userStages : r.userId = 1 /\ ~r.isCompleted /\ r.score > 0
    /\ users[1].globalScore = 200

\* the submission of p completed its stage: no completed row before, a pass now
JustCompleted(t) ==
    /\ \A r \in t.prior : ~r.isCompleted
    /\ t.finalScore >= PassScore

\* C8: a committed submission changes currentStageId only when it is the one that
\* completed the stage and an active stage with the next displayOrder exists, and
\* then to that stage; in every other case currentStageId is unchanged.
C8_PointerMovesOnlyOnCompletion ==
    [][\A p \in Procs :
           (tx[p].pc = "commit" /\ tx'[p].pc = "done")
               => LET u == tx[p].req.userId
                      next == NextStages(tx[p].stageOrder)
                  IN  IF JustCompleted(tx[p]) /\ next # {}
                      THEN users'[u].currentStageId \in next
                      ELSE users'[u].currentStageId = users[u].currentStageId]_vars

\* C10: when the feedback-synthesis call itself fails, the evaluation is still
\* committed (attempt, responses, progress, aggregate) with the fallback feedback.
C10_FeedbackFailureStillCommits ==
    \A p \in Procs :
        (tx[p].pc = "done" /\ tx[p].fbOutcome = "throws")
            => /\ tx[p].status = 201
               /\ \E a \in attempts : a.id = tx[p].n
               /\ \E f \in feedbacks :
                      f.attempt = tx[p].n /\ f.strengths = FallbackFeedback.strengths

----------------------------------------------------------------------------
(* The catalog and the unlock evaluator (SpecStages) *)

InitStages ==
    /\ stages = <<>>
    /\ questions = <<>>
    /\ InitCommon

Quiet == \A p \in Procs : ~InFlight(p)

\* user 1 answers the closed question of a stage right or wrong
StageRequests ==
    UNION {{Request(1, 1, s, rs, FreshAttemptId) : rs \in {PassList(s), FailList(s)}} :
              s \in {x \in StageIds : HasQuestions(x)}}

\* an administrator builds the catalog while user 1 submits and lists the stages,
\* one request at a time
NextCatalog ==
    \/ /\ Quiet
       /\ \E order \in 0..MaxOrder, active, generated \in BOOLEAN :
              CreateStage(order, active, generated)
    \/ /\ Quiet
       /\ GetStages(1)
    \/ \E r \in StageRequests : Begin(1, r)
    \/ Load(1)
    \/ SaveAttempt(1, FALSE)
    \/ Grade(1, FALSE)
    \/ Feedback(1, "ok", FALSE, FALSE)
    \/ FindUserStage(1)
    \/ SaveUserStage(1, FALSE)
    \/ Aggregate(1)
    \/ SaveUser(1, FALSE)
    \/ Commit(1)

SpecStages == InitStages /\ [][NextCatalog]_vars

\* the stages of a listing, and what the listing's user has completed
Listed(l) == {l.stages[i] : i \in 1..Len(l.stages)}
Order(s) == stages[s].displayOrder
Completed(u, s) == \E r \in userStages : r.userId = u /\ r.stageId = s /\ r.isCompleted
LowestListed(l, s) == \A o \in Listed(l) : Order(s) <= Order(o)

\* C3: an active stage S that is not the lowest one and has an active stage P with
\* displayOrder = S.displayOrder - 1 is unlocked iff the user has completed P
\* (P is the stage the evaluator's find returns).
C3_UnlockedIffPredecessorCompleted ==
    \A l \in listing : \A s \in Listed(l) :
        LET prev == PreviousStages(l.stages, Order(s))
        IN  (~LowestListed(l, s) /\ prev # {})
                => (s \in l.unlocked
                        <=> Completed(l.userId, l.stages[FirstIndex(prev)]))

\* C4: the active stage with the minimum displayOrder is unlocked, whatever that
\* minimum is and whatever the user's progress rows contain.
C4_LowestStageUnlocked ==
    \A l \in listing : \A s \in Listed(l) :
        LowestListed(l, s) => s \in l.unlocked

\* a listing whose lowest displayOrder is not 1, for a user who has progress rows,
\* one of them completed
C4_Witness ==
    \E l \in listing : \E s \in Listed(l) :
        /\ LowestListed(l, s) /\ Order(s) # 1 /\ s \in l.unlocked
        /\ Cardinality(Listed(l)) = 2
        /\ \E r \in userStages : r.userId = l.userId /\ r.isCompleted
        /\ \E r \in userStages : r.userId = l.userId /\ ~r.isCompleted

\* C5: an active stage with no active stage at displayOrder - 1 is unlocked,
\* whatever the user's progress.
C5_GapFailsOpen ==
    \A l \in listing : \A s \in Listed(l) :
        (\A o \in Listed(l) : Order(o) # Order(s) - 1) => s \in l.unlocked

\* a listing with a stage above a gap, below which a stage exists that the user has
\* attempted and not completed
C5_Witness ==
    \E l \in listing : \E s, o \in Listed(l) :
        /\ Order(o) < Order(s) - 1
        /\ \A x \in Listed(l) : Order(x) # Order(s) - 1
        /\ \E r \in userStages :
               r.userId = l.userId /\ r.stageId = o /\ ~r.isCompleted
        /\ s \in l.unlocked

\* C18: after any sequence of stage creations, the listing of the active stages is
\* ascending in displayOrder and holds every displayOrder exactly once: no two
\* active stages share a displayOrder.
C18_ActiveOrderUnique ==
    /\ \A s, o \in StageIds :
           (s # o /\ stages[s].isActive /\ stages[o].isActive) => Order(s) # Order(o)
    /\ \A l \in listing : \A i, j \in 1..Len(l.stages) :
           i < j => Order(l.stages[i]) < Order(l.stages[j])

----------------------------------------------------------------------------
(* Concurrent submissions (SpecConcurrent) *)

\* user 1 on stages 1 and 2
ConcurrentRequests ==
    UNION {{Request(1, 1, s, rs, FreshAttemptId) :
               rs \in {PassList(s), FailList(s), HalfList(s)}} : s \in {1, 2}}

\* two workers serve submissions whose steps interleave
NextConcurrent ==
    \E p \in Procs :
        \/ \E r \in ConcurrentRequests : Begin(p, r)
        \/ Load(p)
        \/ SaveAttempt(p, FALSE)
        \/ Grade(p, FALSE)
        \/ Feedback(p, "ok", FALSE, FALSE)
        \/ FindUserStage(p)
        \/ SaveUserStage(p, FALSE)
        \/ WaitUserStage(p)
        \/ Aggregate(p)
        \/ SaveUser(p, FALSE)
        \/ WaitUser(p)
        \/ Commit(p)

SpecConcurrent == Init /\ [][NextConcurrent]_vars

\* C9: when two submissions of one user for one stage interleave, a commit never
\* leaves the UserProgress row with a score below the one already committed, nor
\* with isCompleted reverted.
C9_ConcurrentProgressMonotone ==
    [][\A p \in Procs :
           (tx[p].pc = "commit" /\ tx'[p].pc = "done")
               => \A r \in RowsOf(userStages, tx[p].req.userId, tx[p].req.stageId) :
                  \A r2 \in RowsOf(userStages', tx[p].req.userId, tx[p].req.stageId) :
                      /\ r2.score >= r.score
                      /\ r.isCompleted => r2.isCompleted]_vars

----------------------------------------------------------------------------
(* The feedback delegate's answers (SpecFeedback) *)

\* user 1 on stage 1: every answer right, every answer wrong, one of two right
FeedbackRequests ==
    {Request(1, 1, 1, rs, FreshAttemptId) : rs \in {PassList(1), FailList(1), HalfList(1)}}

\* every way the delegate answers the feedback prompt
AllFeedbackOutcomes ==
    {"ok", "fenced", "fencedPlain", "rawNewline", "garbage", "truncated", "preamble",
     "noStrengths", "noImprovements", "noNextSteps", "noDetailedFeedback", "noBadge",
     "throws"}

\* submissions one after another, no store failure, any answer of the delegate
NextFeedback ==
    \/ \E r \in FeedbackRequests : Begin(1, r)
    \/ Load(1)
    \/ SaveAttempt(1, FALSE)
    \/ Grade(1, FALSE)
    \/ \E o \in AllFeedbackOutcomes : Feedback(1, o, FALSE, FALSE)
    \/ FindUserStage(1)
    \/ SaveUserStage(1, FALSE)
    \/ Aggregate(1)
    \/ SaveUser(1, FALSE)
    \/ Commit(1)

SpecFeedback == Init /\ [][NextFeedback]_vars

\* the delegate's answer is not the required structure: no JSON, broken JSON, or a
\* JSON object that lacks one of the five fields
Unparsable(reply) ==
    \/ reply.body \in {"prose", "truncated"}
    \/ reply.fence \notin {"", "json fence", "fence"}
    \/ FeedbackFields \ reply.fields # {}

\* C11: when the feedback delegate answers with text that is not the required
\* structure, generateFeedback does not raise: the submission ends with 201 and its
\* Feedback row holds the fallback strengths, improvements and the lowest badge.
C11_UnparsableFeedbackFallsBack ==
    \A p \in Procs :
        (/\ tx[p].pc = "done"
         /\ tx[p].fbOutcome \in AllFeedbackOutcomes \ {"throws"}
         /\ Unparsable(Completion(tx[p].fbOutcome, tx[p].finalScore)))
            => /\ tx[p].status = 201
               /\ \E f \in feedbacks :
                      /\ f.attempt = tx[p].n
                      /\ f.strengths = "fallback"
                      /\ f.improvements = "fallback"
                      /\ f.badge = "QA Novice"

\* a submission with every answer right was committed although the delegate's answer
\* lacked the improvements field, and another although it was prose
C11_Witness ==
    /\ tx[1].pc = "done" /\ tx[1].status = 201
    /\ tx[1].fbOutcome = "noImprovements" /\ tx[1].finalScore = 100
    /\ \E f \in feedbacks : f.attempt = tx[1].n /\ f.improvements = "fallback"
    /\ \E f \in feedbacks :
           f.attempt # tx[1].n /\ f.score = 100 /\ f.strengths = "fallback"

\* the five tiers of the ladder, lowest first, with their lowest and highest score
Ladder ==
    <<[badge |-> "QA Novice", from |-> 0, to |-> 40],
      [badge |-> "QA Apprentice", from |-> 41, to |-> 60],
      [badge |-> "QA Practitioner", from |-> 61, to |-> 80],
      [badge |-> "QA Expert", from |-> 81, to |-> 95],
      [badge |-> "QA Master", from |-> 96, to |-> 100]>>

\* C17: the badge of every Feedback row is the tier of the ladder (0-40, 41-60,
\* 61-80, 81-95, 96-100) that contains the row's score; every score of 0..100 lies
\* in exactly one tier.
C17_BadgeFollowsLadder ==
    /\ \A sc \in 0..100 :
           Cardinality({i \in 1..5 : Ladder[i].from <= sc /\ sc <= Ladder[i].to}) = 1
    /\ \A f \in feedbacks :
           \E i \in 1..5 :
               /\ Ladder[i].from <= f.score /\ f.score <= Ladder[i].to
               /\ f.badge = Ladder[i].badge

----------------------------------------------------------------------------
(* Grading (SpecGrading) *)

\* the questions generated for stage 1: closed questions whose correct answer is the
\* first option, the second, the text of both options, a text that is no option, and
\* an open question
GradingQuestions ==
    <<McqQuestion(1),
      [McqQuestion(1) EXCEPT !.correctAnswer = "B"],
      [McqQuestion(1) EXCEPT !.options = <<"B", "B">>, !.correctAnswer = "B"],
      [McqQuestion(1) EXCEPT !.correctAnswer = "C"],
      OpenQuestion(1)>>

InitGrading ==
    /\ stages = SeedStages
    /\ questions = GradingQuestions
    /\ InitCommon

\* what a client sends as the answer to a closed question
RawAnswers == {"0", "1", "2", "-1", "1abc", " 0", "abc", ""}

\* what the grading delegate does with an open answer
AiOutcomes == {"correct", "incorrect", "garbage", "fenced", "fail"}

\* one answer to a closed question; an open answer before or after a closed one; two
\* open answers
GradingLists ==
    {<<Resp(1, a, NULL)>> : a \in RawAnswers}
    \cup {<<Resp(q, a, NULL)>> : q \in 2..4, a \in {"0", "1"}}
    \cup {<<Resp(5, "text", ai), Resp(1, "0", NULL)>> : ai \in AiOutcomes}
    \cup {<<Resp(2, "0", NULL), Resp(5, "text", ai)>> : ai \in {"garbage", "fail"}}
    \cup {<<Resp(5, "text", "fail"), Resp(5, "more", "correct")>>}

GradingRequests == {Request(1, 1, 1, rs, FreshAttemptId) : rs \in GradingLists}

\* submissions one after another, no store failure, a feedback delegate that answers
NextGrading ==
    \/ \E r \in GradingRequests : Begin(1, r)
    \/ Load(1)
    \/ SaveAttempt(1, FALSE)
    \/ Grade(1, FALSE)
    \/ Feedback(1, "ok", FALSE, FALSE)
    \/ FindUserStage(1)
    \/ SaveUserStage(1, FALSE)
    \/ Aggregate(1)
    \/ SaveUser(1, FALSE)
    \/ Commit(1)

SpecGrading == InitGrading /\ [][NextGrading]_vars

\* the grading call of the i-th answer of a request failed or returned unparsable text
GradingFailed(r, i) ==
    /\ questions[r.responses[i].questionId].type # "multiple-choice"
    /\ r.responses[i].ai \in {"fail", "garbage", "fenced"}

\* C12: when the grading call of an open answer fails, times out or returns
\* unparsable text, that answer is stored incorrect with 0 points, every other answer
\* of the list is stored graded, and the submission commits with 201.
C12_GradingFailureFailsClosed ==
    \A p \in Procs :
        (/\ tx[p].pc = "done"
         /\ \E i \in 1..Len(tx[p].req.responses) : GradingFailed(tx[p].req, i))
            => /\ tx[p].status = 201
               /\ \E a \in attempts : a.id = tx[p].n
               /\ \A i \in 1..Len(tx[p].req.responses) :
                      \E r \in responses :
                          /\ r.attempt = tx[p].n /\ r.idx = i
                          /\ GradingFailed(tx[p].req, i)
                                 => (~r.isCorrect /\ r.pointsEarned = 0)
                          /\ tx[p].req.responses[i].ai = "correct"
                                 => (r.isCorrect /\ r.pointsEarned > 0)
                          /\ tx[p].req.responses[i] = Resp(1, "0", NULL)
                                 => (r.isCorrect /\ r.pointsEarned > 0)

\* a submission was committed whose first answer's grading call threw and whose
\* second answer, a closed one, was graded right: score 50
C12_Witness ==
    /\ tx[1].pc = "done" /\ tx[1].status = 201
    /\ tx[1].req.responses = <<Resp(5, "text", "fail"), Resp(1, "0", NULL)>>
    /\ tx[1].finalScore = 50
    /\ \E r \in responses : r.attempt = tx[1].n /\ r.idx = 1 /\ ~r.isCorrect
    /\ \E r \in responses : r.attempt = tx[1].n /\ r.idx = 2 /\ r.isCorrect

\* the zero-based index an answer text selects in a list of options, if any
SelectedIndex(answer, options) ==
    {i \in 0..(Len(options) - 1) : ParseInt(answer) = <<i>>}

\* C14: a stored answer to a multiple-choice question is correct iff its text, parsed
\* as a zero-based index, selects an option equal to the question's correctAnswer; an
\* index outside the options (negative, too large, not a number) is never correct;
\* pointsEarned is the question's points when correct and 0 otherwise.
C14_McqGradedByOptionText ==
    \A r \in responses :
        LET q == questions[r.questionId]
            sel == SelectedIndex(r.response, q.options)
        IN  q.type = "multiple-choice"
                => /\ r.isCorrect <=> \E i \in sel : q.options[i + 1] = q.correctAnswer
                   /\ sel = {} => ~r.isCorrect
                   /\ r.pointsEarned = IF r.isCorrect THEN q.points ELSE 0

\* stored: a right answer given as "1abc", a wrong first option, and an index past
\* the last option
C14_Witness ==
    /\ \E r \in responses :
           r.questionId = 2 /\ r.response = "1" /\ r.isCorrect /\ r.pointsEarned = 10
    /\ \E r \in responses :
           r.questionId = 1 /\ r.response = "1abc" /\ ~r.isCorrect
    /\ \E r \in responses :
           r.questionId = 1 /\ r.response = "2" /\ ~r.isCorrect /\ r.pointsEarned = 0

----------------------------------------------------------------------------
(* Further properties of the submission handler, one submission at a time (Spec) *)

\* the i-th answer of request r names a question of the request's stage
ValidQuestionId(r, i) ==
    /\ r.responses[i].questionId \in QuestionIds
    /\ questions[r.responses[i].questionId].stageId = r.stageId

\* the four cases in which a submission has to be rejected
MustReject(r) ==
    \/ r.userId # r.authUser
    \/ r.userId <= 0
    \/ r.stageId <= 0
    \/ \A q \in QuestionIds : questions[q].stageId # r.stageId
    \/ \A i \in 1..Len(r.responses) : ~ValidQuestionId(r, i)

\* C13: a submission whose userId is not the authenticated user's, whose userId or
\* stageId is not a positive integer, whose stage has no question, or none of whose
\* answers names a valid question of the stage, is rejected, and the step that ends
\* it changes no table.
C13_InvalidSubmissionRejected ==
    [][\A p \in Procs :
           (tx[p].pc # "done" /\ tx'[p].pc = "done" /\ MustReject(tx'[p].req))
               => (tx'[p].status # 201 /\ db' = db)]_vars

\* C16: the commit of a user's first submission for a stage, with final score s,
\* creates the UserProgress row with score = s, isCompleted = (s >= 60) and
\* completedAt set iff s >= 60; when s >= 60, globalScore grows by exactly s and
\* currentStageId becomes the active stage with the next displayOrder, if there is one.
C16_FirstSubmissionCreatesProgress ==
    [][\A p \in Procs :
           LET u == tx[p].req.userId
               st == tx[p].req.stageId
               next == NextStages(stages[st].displayOrder)
           IN  (tx[p].pc = "commit" /\ tx'[p].pc = "done"
                /\ RowsOf(userStages, u, st) = {})
                   => \E a \in attempts' : \E r \in RowsOf(userStages', u, st) :
                          /\ a.id = tx[p].n
                          /\ r.score = a.score
                          /\ r.isCompleted <=> a.score >= 60
                          /\ r.completedAt # 0 <=> a.score >= 60
                          /\ a.score >= 60 =>
                                 /\ users'[u].globalScore = users[u].globalScore + a.score
                                 /\ next # {} => users'[u].currentStageId \in next]_vars

\* user 1, who had completed stage 1 and failed stage 3, has passed stage 2 at the
\* first submission: globalScore 200, currentStageId 3
C16_Witness ==
    /\ tx[1].pc = "done" /\ tx[1].status = 201 /\ tx[1].req.stageId = 2
    /\ tx[1].prior = None /\ tx[1].finalScore = 100
    /\ \E r \in userStages : r.stageId = 3 /\ ~r.isCompleted
    /\ users[1].globalScore = 200 /\ users[1].currentStageId = 3

\* C19: the feedback generator is invoked, and the Feedback row written, only after
\* the submission's transaction has committed its attempt; the Feedback row is never
\* one of the transaction's pending writes.
C19_FeedbackAfterCommit ==
    [][\A p \in Procs :
           /\ (tx[p].pc = "feedback" /\ tx'[p].pc # "feedback")
                  => \E a \in attempts : a.id = tx[p].n
           /\ tx'[p].wFeedbacks = {}]_vars

----------------------------------------------------------------------------
(* Clients that go away (SpecDisconnect) *)

\* user 1 passes or fails stage 1 or 2
DisconnectRequests ==
    UNION {{Request(1, 1, s, rs, FreshAttemptId) : rs \in {PassList(s), FailList(s)}} :
              s \in {1, 2}}

\* submissions one after another, each of which the client may abandon at any point
\* after the transaction has started
NextDisconnect ==
    \/ \E r \in DisconnectRequests : Begin(1, r)
    \/ Disconnect(1)
    \/ Load(1)
    \/ SaveAttempt(1, FALSE)
    \/ Grade(1, FALSE)
    \/ Feedback(1, "ok", FALSE, FALSE)
    \/ FindUserStage(1)
    \/ SaveUserStage(1, FALSE)
    \/ Aggregate(1)
    \/ SaveUser(1, FALSE)
    \/ Commit(1)

SpecDisconnect == Init /\ [][NextDisconnect]_vars

\* C20: when the client has disconnected after the transaction started and before
\* it committed, the transaction is rolled back: no step of that submission changes
\* a table, and the submission does not end as committed.
C20_DisconnectRollsBack ==
    [][\A p \in Procs :
           (InFlight(p) /\ tx[p].gone)
               => (db' = db /\ tx'[p].status # 201)]_vars

----------------------------------------------------------------------------
(* Long answer lists (SpecScore) *)

\* n answers to the closed question of stage 1, the first k of them right
LongList(n, k) == [i \in 1..n |-> Resp(McqOf(1), IF i <= k THEN "0" ELSE "1", NULL)]

ScoreRequests ==
    UNION {{Request(1, 1, 1, LongList(n, k), FreshAttemptId) : k \in 0..n} :
              n \in 1..MaxAnswers}

\* user 1 submits a list of up to MaxAnswers answers; no failure of store or delegate
NextScore ==
    \/ /\ clock < MaxLongRequests
       /\ \E r \in ScoreRequests : Begin(1, r)
    \/ Load(1)
    \/ SaveAttempt(1, FALSE)
    \/ Grade(1, FALSE)
    \/ Feedback(1, "ok", FALSE, FALSE)
    \/ FindUserStage(1)
    \/ SaveUserStage(1, FALSE)
    \/ Aggregate(1)
    \/ SaveUser(1, FALSE)
    \/ Commit(1)

SpecScore == Init /\ [][NextScore]_vars

\* C15: the score stored on a committed attempt with correctCount right answers out
\* of totalAnswered >= 1 is round(100 * correctCount / totalAnswered), halves rounded
\* up, whatever the questions' points, and lies in 0..100.
C15_ScoreIsRoundedPercentage ==
    \A a \in attempts :
        LET rows == {r \in responses : r.attempt = a.id}
            totalAnswered == Cardinality(rows)
            correctCount == Cardinality({r \in rows : r.isCorrect})
        IN  totalAnswered >= 1
                => /\ a.score = RoundDiv(100 * correctCount, totalAnswered)
                   /\ a.score \in 0..100

----------------------------------------------------------------------------
(* Termination (SpecLive) *)

\* the right option and an open answer, sent while the delegate answers no call
SilentList(s) == <<Resp(McqOf(s), "0", NULL), Resp(OpenOf(s), "text", "silent")>>

\* user 1 on stage 1, with the delegate up or down, and on stage 2
LiveRequests ==
    {Request(1, 1, 1, rs, FreshAttemptId) :
        rs \in {PassList(1), HalfList(1), SilentList(1)}}
    \cup {Request(1, 1, 2, PassList(2), FreshAttemptId)}

\* a delegate that is down for the grading calls of a submission is down for its
\* feedback call
DelegateDown(r) ==
    r # NoRequest /\ \E i \in 1..Len(r.responses) : r.responses[i].ai = "silent"

\* what the delegate does with the feedback call of worker p's submission
LiveOutcome(p) == IF DelegateDown(tx[p].req) THEN "silent" ELSE "ok"

\* the feedback step of worker p
LiveFeedback(p) == Feedback(p, LiveOutcome(p), FALSE, FALSE)

\* the feedback step of worker p can be taken: ENABLED <<LiveFeedback(p)>>_vars
FeedbackReady(p) == tx[p].pc = "feedback" /\ ~Hangs(LiveOutcome(p))

\* the other steps worker p takes once its request has been accepted
Steps(p) ==
    \/ Load(p)
    \/ SaveAttempt(p, FALSE)
    \/ Grade(p, FALSE)
    \/ FindUserStage(p)
    \/ SaveUserStage(p, FALSE)
    \/ WaitUserStage(p)
    \/ Aggregate(p)
    \/ SaveUser(p, FALSE)
    \/ WaitUser(p)
    \/ Commit(p)

NextLive ==
    \E p \in Procs :
        \/ \E r \in LiveRequests : Begin(p, r)
        \/ Steps(p)
        \/ LiveFeedback(p)

\* the event loop resumes every continuation that is ready, and the store answers
\* every statement that waits for no lock: a worker's enabled step is taken. The
\* second conjunct is WF_vars(LiveFeedback(p)) with its ENABLED written as
\* FeedbackReady(p)
SpecLive ==
    /\ Init /\ [][NextLive]_vars
    /\ \A p \in Procs :
           /\ WF_vars(Steps(p))
           /\ ([]<>(~FeedbackReady(p)) \/ []<><<LiveFeedback(p)>>_vars)

\* C21: every submission that has started its transaction ends, also when the
\* delegate answers none of its calls: it is eventually committed (201) or rolled
\* back (an error status), with no write pending and its query runner released.
C21_SubmissionTerminates ==
    \A p \in Procs :
        InFlight(p) ~>
            (/\ tx[p].pc = "done"
             /\ tx[p].status \in {201, 400, 404, 500}
             /\ tx[p].wAttempts = {} /\ tx[p].wResponses = {}
             /\ tx[p].wFeedbacks = {} /\ tx[p].wUserStage = None
             /\ tx[p].wUser = None)

\* a submission sent while the delegate is down has ended, rolled back
C21_Witness ==
    \E p \in Procs :
        /\ tx[p].pc = "done"
        /\ DelegateDown(tx[p].req)
        /\ tx[p].status = 500
        /\ tx[p].failedAt = "generateFeedback"

\* C22: a committed attempt has at most one user_responses row per question, and a
\* question named more than once in the answer list is counted once: the feedback's
\* correctAnswers is at most the number of questions answered.
C22_OneResponsePerQuestion ==
    \A a \in attempts :
        LET rows == {r \in responses : r.attempt = a.id}
        IN  /\ \A r1, r2 \in rows : r1.questionId = r2.questionId => r1 = r2
            /\ \A f \in feedbacks :
                   f.attempt = a.id =>
                       f.correctAnswers <= Cardinality({r.questionId : r \in rows})

----------------------------------------------------------------------------
(* Attempts and their feedback (Spec) *)

\* the feedback rows keyed to the attempt with primary key n
FeedbackOf(n) == {f \in feedbacks : f.attempt = n}

\* C23: every committed attempt has exactly one feedback row keyed to it, and every
\* feedback row is keyed to a committed attempt: none is left by a submission that
\* was rolled back.
C23_OneFeedbackPerAttempt ==
    /\ \A a \in attempts : Cardinality(FeedbackOf(a.id)) = 1
    /\ \A f \in feedbacks : \E a \in attempts : a.id = f.attempt

\* one submission is committed with its feedback, and a later one, whose feedback
\* row had been written, was rolled back and has left none
C23_Witness ==
    /\ \E a \in attempts : Cardinality(FeedbackOf(a.id)) = 1
    /\ tx[1].pc = "done" /\ tx[1].status = 500
    /\ tx[1].failedAt \in {"updateScore", "saveUserStage", "saveUser"}
    /\ FeedbackOf(tx[1].n) = {}

----------------------------------------------------------------------------
(* Progress rows and the attempts behind them (Spec) *)

\* the committed attempts of user u for stage s
AttemptsOf(u, s) == {a \in attempts : a.userId = u /\ a.stageId = s}

\* the greatest score among a non-empty set of attempts
BestScore(atts) == CHOOSE m \in {a.score : a \in atts} : \A a \in atts : a.score <= m

\* C24: with submissions executed one at a time, a user has a progress row for a
\* stage exactly when a submission of that user for that stage has committed, and
\* the row's score is the greatest final score among those committed attempts.
C24_ProgressIsBestScore ==
    \A u \in Users, s \in StageIds :
        LET atts == AttemptsOf(u, s)
            rows == RowsOf(userStages, u, s)
        IN  /\ rows # {} <=> atts # {}
            /\ rows # {} => The(rows).score = BestScore(atts)

\* three committed attempts for one stage, the best of them neither the first nor
\* the last, and the progress row carries the best score
C24_Witness ==
    \E a, b, c \in AttemptsOf(1, 1) :
        /\ a.id < b.id /\ b.id < c.id
        /\ a.score < b.score /\ c.score < b.score
        /\ The(RowsOf(userStages, 1, 1)).score = b.score

----------------------------------------------------------------------------
(* Completion of a progress row (Spec, SpecConcurrent) *)

\* C25: in every state that a step leads to, every progress row has isCompleted
\* exactly when its score is at least 60 and a completedAt exactly when isCompleted
\* (0 is null), and a completedAt that was set is the same after the step.
C25_CompletionConsistent ==
    [][\A r \in userStages' :
           /\ r.isCompleted <=> r.score >= PassScore
           /\ r.completedAt # 0 <=> r.isCompleted
           /\ \A old \in userStages :
                  (SameKey(old, r) /\ old.completedAt # 0)
                      => r.completedAt = old.completedAt]_vars

----------------------------------------------------------------------------
(* The score of an attempt and its rows (SpecScore) *)

\* C26: a committed attempt with n response rows, k of them correct, has the score
\* round(100 * k / n), not the placeholder 0 when that is positive, and its feedback
\* row carries the same score, totalQuestions = n and correctAnswers = k.
C26_AttemptScoreMatchesRows ==
    \A a \in attempts :
        LET rows == {r \in responses : r.attempt = a.id}
            n == Cardinality(rows)
            k == Cardinality({r \in rows : r.isCorrect})
        IN  /\ a.score = RoundDiv(100 * k, n)
            /\ RoundDiv(100 * k, n) > 0 => a.score > 0
            /\ \A f \in FeedbackOf(a.id) :
                   /\ f.score = a.score
                   /\ f.totalQuestions = n
                   /\ f.correctAnswers = k

----------------------------------------------------------------------------
(* Submissions of two users (SpecUsers) *)

\* each user passes or fails stage 1, or sends the other user's id in the body;
\* user 1 also passes stage 2
UserRequests ==
    UNION {{Request(u, u, 1, PassList(1), FreshAttemptId),
            Request(u, u, 1, FailList(1), FreshAttemptId),
            Request(u, 3 - u, 1, PassList(1), FreshAttemptId)} : u \in Users}
    \cup {Request(1, 1, 2, PassList(2), FreshAttemptId)}

\* two workers serve the submissions of both users; the progress write can fail
NextUsers ==
    \E p \in Procs :
        \/ \E r \in UserRequests : Begin(p, r)
        \/ Load(p)
        \/ SaveAttempt(p, FALSE)
        \/ Grade(p, FALSE)
        \/ Feedback(p, "ok", FALSE, FALSE)
        \/ FindUserStage(p)
        \/ \E fail \in BOOLEAN : SaveUserStage(p, fail)
        \/ WaitUserStage(p)
        \/ Aggregate(p)
        \/ SaveUser(p, FALSE)
        \/ WaitUser(p)
        \/ Commit(p)

SpecUsers == Init /\ [][NextUsers]_vars

\* the progress rows of user u
ProgressOf(table, u) == {r \in table : r.userId = u}

\* C27: a step of a submission authenticated as user A, be it a commit or a failure,
\* leaves the progress rows, globalScore and currentStageId of every other user as
\* they were, also between the steps of another user's submission; and a submission
\* whose payload names another user never gets past validation.
C27_OtherUsersUntouched ==
    [][\A p \in Procs :
           tx'[p] # tx[p] =>
               /\ \A u \in Users \ {tx'[p].req.authUser} :
                      /\ users'[u] = users[u]
                      /\ ProgressOf(userStages', u) = ProgressOf(userStages, u)
               /\ tx'[p].req.userId # tx'[p].req.authUser
                      => (tx'[p].pc = "done" /\ tx'[p].status = 403)]_vars

\* a submission of user 1 has committed between the steps of a submission of
\* user 2 that started earlier, has written its progress row and is not yet over
C27_Witness ==
    \E p, q \in Procs :
        /\ tx[p].pc = "done" /\ tx[p].status = 201 /\ tx[p].req.authUser = 1
        /\ InFlight(q) /\ tx[q].req.authUser = 2 /\ tx[q].n < tx[p].n
        /\ tx[q].wUserStage # None
        /\ ProgressOf(userStages, 1) # {}

----------------------------------------------------------------------------
(* Stage gating of submissions (Spec) *)

\* C28: a submission commits only for a stage that the unlock evaluator reports as
\* unlocked for the submitting user, given the progress the user had when the
\* submission was made (with submissions one at a time, the progress stored when
\* it commits).
C28_LockedStageRejected ==
    [][\A p \in Procs :
           (InFlight(p) /\ tx'[p].pc = "done" /\ tx'[p].status = 201)
               => \A l \in ActiveStageLists :
                      isStageUnlocked(tx[p].req.stageId, l,
                                      ProgressOf(userStages, tx[p].req.userId))]_vars

----------------------------------------------------------------------------
(* Attempt identifiers sent again (SpecReplay) *)

\* user 1 passes or fails stage 1 or passes stage 2, under a fresh attempt
\* identifier or under the identifier of the first submission, which is 1
ReplayRequests ==
    UNION {{Request(1, 1, 1, PassList(1), aid), Request(1, 1, 1, FailList(1), aid),
            Request(1, 1, 2, PassList(2), aid)} :
              aid \in {1, FreshAttemptId}}

\* two workers serve submissions whose steps interleave
NextReplay ==
    \E p \in Procs :
        \/ \E r \in ReplayRequests : Begin(p, r)
        \/ Load(p)
        \/ SaveAttempt(p, FALSE)
        \/ Grade(p, FALSE)
        \/ Feedback(p, "ok", FALSE, FALSE)
        \/ FindUserStage(p)
        \/ SaveUserStage(p, FALSE)
        \/ WaitUserStage(p)
        \/ Aggregate(p)
        \/ SaveUser(p, FALSE)
        \/ WaitUser(p)
        \/ Commit(p)

SpecReplay == Init /\ [][NextReplay]_vars

\* a committed attempt carries the attempt identifier of worker p's submission
AlreadyCommitted(p) == \E a \in attempts : a.attemptId = tx[p].req.attemptId

\* C29: no two committed attempts share an attempt identifier, and a submission
\* under an identifier that a committed attempt already carries changes no table
\* and does not end as committed, also when it started before that attempt
\* committed.
C29_ReplayCreatesNothing ==
    [][/\ \A a, b \in attempts' : a.attemptId = b.attemptId => a = b
       /\ \A p \in Procs :
              (InFlight(p) /\ AlreadyCommitted(p) /\ tx'[p] # tx[p])
                  => (db' = db /\ tx'[p].status # 201)]_vars

\* a submission has failed at the attempt insert and left no row, because another
\* submission that started after it committed the same identifier first
C29_Witness ==
    \E p, q \in Procs :
        /\ tx[p].pc = "done" /\ tx[p].status = 500 /\ tx[p].failedAt = "saveAttempt"
        /\ tx[q].pc = "done" /\ tx[q].status = 201
        /\ tx[q].req.attemptId = tx[p].req.attemptId
        /\ tx[p].n < tx[q].n
        /\ RowsOfRequest(tx[p].n) = {}

----------------------------------------------------------------------------
(* The aggregate under concurrent submissions (SpecConcurrent) *)

\* C30: when the only two submissions made, by one user for two different stages,
\* have both committed, in whatever interleaving, the user's globalScore is the sum
\* of the scores of the user's completed progress rows.
C30_ConcurrentAggregateIsSum ==
    (/\ tx[1].pc = "done" /\ tx[1].status = 201
     /\ tx[2].pc = "done" /\ tx[2].status = 201
     /\ tx[1].n + tx[2].n = 3
     /\ tx[1].req.userId = tx[2].req.userId
     /\ tx[1].req.stageId # tx[2].req.stageId)
        => users[tx[1].req.userId].globalScore =
               SumScores({r \in userStages :
                              r.userId = tx[1].req.userId /\ r.isCompleted})

====
